---- MODULE Spec2Model ----
(***************************************************************************)
(* The photo editor screen (EditScreen) of simple-photo-gallery.           *)
(*                                                                         *)
(* The repository holds three versions of the screen; each is modelled,    *)
(* and `variant` says which one a behaviour runs:                          *)
(*   "skia"    src/unnamed/part_004  crop rectangle on a Skia canvas,      *)
(*             view/crop modes, committed transform                        *)
(*   "gesture" src/unnamed/part_005  pan/pinch handlers gated by the mode, *)
(*             committed transform                                         *)
(*   "filter"  src/app/edit.tsx      pan/pinch handlers, colour filters,   *)
(*             no modes and no committed transform                         *)
(*                                                                         *)
(* part_005 declares scale/translateX/translateY and handleRotate twice;    *)
(* the later declarations (lines 113-115, 163-165) are the ones modelled.  *)
(* edit.tsx has a single screen state, the one whose header offers Cancel  *)
(* and Save: its editMode stays 'view'.                                    *)
(*                                                                         *)
(* React state (editMode, isProcessing, ...) is rendered before the next   *)
(* press is handled, so a control is available exactly when the current    *)
(* state renders it enabled. Shared values change at once on assignment    *)
(* and frame by frame under withSpring, each frame nearer the target, the  *)
(* last one on it. An Alert is modal.                                      *)
(*                                                                         *)
(* Spec follows all three versions through a short session. SpecCrop       *)
(* follows the transform of part_005 through two visits to crop mode,      *)
(* SpecSnap the crop rectangle of part_004 under the handle and the        *)
(* aspect-ratio buttons, SpecGeometry part_004 from the crop rectangle on  *)
(* screen to the exported rectangle, on several windows and images.        *)
(*                                                                         *)
(* Numbers are exact rationals <<n, d>> (d > 0, lowest terms) standing for *)
(* the JavaScript doubles of the code.                                     *)
(***************************************************************************)
EXTENDS Integers, Sequences, FiniteSets, TLC

\* ------------------------------------------------------------ bounds
\* user input events per session
MaxEvents == 4
\* frames a withSpring animation takes to reach its target
MaxFrames == 2
\* exports that may be in flight together before the model stops adding more
MaxExports == 2
\* largest |translation| (px) and |crop extent| (px) the gestures are fed up to
MaxPan == 400
MaxExtent == 520

\* ------------------------------------------------------------ rationals
Abs(n) == IF n < 0 THEN -n ELSE n

RECURSIVE GCD(_, _)
GCD(a, b) == IF b = 0 THEN a ELSE GCD(b, a % b)

Norm(n, d) ==
  LET g == GCD(Abs(n), Abs(d))
      s == IF d < 0 THEN -1 ELSE 1
  IN  <<(s * n) \div g, (s * d) \div g>>

R(n) == <<n, 1>>
RAdd(a, b) == Norm(a[1] * b[2] + b[1] * a[2], a[2] * b[2])
RSub(a, b) == Norm(a[1] * b[2] - b[1] * a[2], a[2] * b[2])
RMul(a, b) == Norm(a[1] * b[1], a[2] * b[2])
RDiv(a, b) == Norm(a[1] * b[2], a[2] * b[1])
RLt(a, b) == a[1] * b[2] < b[1] * a[2]
RLe(a, b) == a[1] * b[2] <= b[1] * a[2]
RMin(a, b) == IF RLe(a, b) THEN a ELSE b
RMax(a, b) == IF RLe(a, b) THEN b ELSE a
\* JavaScript's % for a non-negative left operand and a positive integer m
RMod(a, m) == Norm(a[1] % (m * a[2]), a[2])

\* an absent value: no running animation, no image size yet, no request yet
NoAnim == <<>>
Null == <<>>
None == <<>>

\* ------------------------------------------------------------ inputs
Variants == {"skia", "gesture", "filter"}
\* Dimensions.get('window')
Screens == {[width |-> 360, height |-> 800]}
\* what Image.getSize reports
ImageSizes == {[width |-> 1000, height |-> 2000], [width |-> 2000, height |-> 1000]}
\* event.scale of a pinch update
PinchFactors == {<<1, 4>>, <<1, 2>>, <<2, 1>>, <<4, 1>>}
\* event.translationX / translationY of a pan update
PanTranslations == {<<200, 0>>, <<-200, 200>>}
\* event.changeX / changeY of a drag on the crop handle
ResizeChanges == {<<-260, 0>>, <<0, -260>>, <<260, 260>>}
\* the ratios the aspect-ratio buttons pass
AspectRatios == {<<1, 1>>, <<5, 4>>, <<9, 16>>}

\* the aspect-ratio buttons of the crop controls: the label W:H each shows and
\* the ratio its onPress passes
AspectRatioButtons ==
  {[label |-> <<1, 1>>, ratio |-> <<1, 1>>],
   [label |-> <<4, 5>>, ratio |-> <<5, 4>>],
   [label |-> <<16, 9>>, ratio |-> <<9, 16>>]}

Active == {"scale", "translateX", "translateY", "rotation"}
Committed == {"committedScale", "committedTranslateX", "committedTranslateY",
              "committedRotation"}
Crop == {"cropX", "cropY", "cropWidth", "cropHeight"}
SharedValues == Active \cup Committed \cup Crop

VARIABLES
  variant,            \* which version of the screen runs
  screen,             \* Dimensions.get('window')
  image,              \* useImage(params.imageUri) has loaded (skia)
  originalImageSize,  \* Null, or <<size>> once Image.getSize has reported
  editMode,           \* 'view' | 'crop'
  isProcessing,       \* useState(false)
  sv,                 \* the shared values: name -> current value
  anim,               \* name -> NoAnim, or the running withSpring <<to, framesLeft>>
  gesture,            \* pinch / pan in progress and their contexts
  filterState,        \* selectedFilter ~= 'original', showFilters (filter)
  exports,            \* the handleSave invocations in flight
  alert,              \* the Alert on screen: "none", "success", "error"
  mounted,            \* the screen is on the navigation stack
  out,                \* what has left the screen: calls, alerts, assets, back,
                      \* and how often Cancel was pressed
  lastDone,           \* history: the active values copied by the last done-crop
  beforeCrop,         \* history: what a save had to read at the last enter-crop
  lastOp,             \* history: the last handler or callback that ran
  nEvents,            \* user input events so far
  eventBudget,        \* user input events the session is followed for
  home                \* HomeScreen (the gallery tab): its useState values, the
                      \* getAssetsAsync requests in flight, and what it did last

vars == <<variant, screen, image, originalImageSize, editMode, isProcessing, sv,
          anim, gesture, filterState, exports, alert, mounted, out, lastDone,
          beforeCrop,
          lastOp, nEvents, eventBudget, home>>

\* what stays as it is for the whole session (the gallery tab is another
\* screen with state of its own)
session == <<variant, screen, eventBudget, home>>

\* the media library holds this many pages of PAGE_SIZE assets at most
MaxPages == 3
\* end-reached events and button presses followed on the gallery tab
MaxHomeEvents == 6

\* a cursor is the number of the last page read; 0 is `undefined`
Undefined == 0

\* HomeScreen after construction, over a library of `pages` pages
HomeScreen(pages) ==
  [library |-> pages,
   media |-> <<>>,
   permissionResponse |-> "loading",
   isLoading |-> FALSE,
   isLoadingMore |-> FALSE,
   hasNextPage |-> TRUE,
   endCursor |-> Undefined,
   error |-> FALSE,
   requests |-> <<>>,
   events |-> 0,
   lastOp |-> "init"]

CROP_AREA_SIZE == screen.width - 40

InitialValues ==
  [n \in SharedValues |->
     CASE n \in {"scale", "committedScale"} -> R(1)
       [] n = "cropX" -> R(50)
       [] n = "cropY" -> R(100)
       [] n \in {"cropWidth", "cropHeight"} -> R(screen.width - 100)
       [] OTHER -> R(0)]

Identity == [scale |-> R(1), translateX |-> R(0), translateY |-> R(0), rotation |-> R(0)]

\* the edit screen after construction, for a version, a window and a number
\* of events to follow
EditScreen(variants, screens, budget) ==
  /\ variant \in variants
  /\ screen \in screens
  /\ image = (variant # "skia")
  /\ originalImageSize = Null
  /\ editMode = "view"
  /\ isProcessing = FALSE
  /\ sv = InitialValues
  /\ anim = [n \in SharedValues |-> NoAnim]
  /\ gesture = [pinching |-> FALSE, panning |-> FALSE, startScale |-> R(1),
                startX |-> R(0), startY |-> R(0)]
  /\ filterState = [filtered |-> FALSE, showFilters |-> FALSE]
  /\ exports = <<>>
  /\ alert = "none"
  /\ mounted = TRUE
  /\ out = [manipulateCalls |-> 0, persistCalls |-> 0, errorAlerts |-> 0,
            assets |-> 0, back |-> 0, cancels |-> 0, request |-> None,
            persisted |-> None]
  /\ lastDone = Identity
  /\ beforeCrop = [transform |-> Identity,
                   crop |-> [n \in Crop |-> InitialValues[n]]]
  /\ lastOp = "init"
  /\ nEvents = 0
  /\ eventBudget = budget

\* the state after construction
Start(variants, screens, budget) ==
  /\ EditScreen(variants, screens, budget)
  /\ home = HomeScreen(MaxPages)

Init == Start(Variants, Screens, MaxEvents)

\* ------------------------------------------------------------ shared values
Mid(a, b) == RDiv(RAdd(a, b), R(2))

\* x.value = v for the names of `assigns` (a running animation of x is
\* cancelled), x.value = withSpring(v) for the names of `springs`
Apply(assigns, springs) ==
  /\ sv' = [n \in SharedValues |->
              IF n \in DOMAIN assigns THEN assigns[n] ELSE sv[n]]
  /\ anim' = [n \in SharedValues |->
                IF n \in DOMAIN assigns THEN NoAnim
                ELSE IF n \in DOMAIN springs
                     THEN IF sv[n] = springs[n] THEN NoAnim
                          ELSE <<springs[n], MaxFrames>>
                     ELSE anim[n]]

\* one frame of the running withSpring animations: each moves toward its
\* target and lands exactly on it with its last frame
Frame ==
  /\ mounted
  /\ \E n \in SharedValues : anim[n] # NoAnim
  /\ sv' = [n \in SharedValues |->
              IF anim[n] = NoAnim THEN sv[n]
              ELSE IF anim[n][2] <= 1 THEN anim[n][1]
                   ELSE Mid(sv[n], anim[n][1])]
  /\ anim' = [n \in SharedValues |->
                IF anim[n] = NoAnim \/ anim[n][2] <= 1 THEN NoAnim
                ELSE <<anim[n][1], anim[n][2] - 1>>]
  /\ UNCHANGED <<session, image, originalImageSize, editMode,
                 isProcessing, gesture, filterState, exports, alert, mounted,
                 out, lastDone, beforeCrop, lastOp, nEvents>>

ActiveTransform == [n \in Active |-> sv[n]]
CommittedTransform ==
  [scale |-> sv["committedScale"], translateX |-> sv["committedTranslateX"],
   translateY |-> sv["committedTranslateY"], rotation |-> sv["committedRotation"]]
CropRect == [n \in Crop |-> sv[n]]

\* ------------------------------------------------------------ the user
\* A control is reachable while the screen is mounted and no Alert covers it.
UserEvent(op) ==
  /\ mounted
  /\ alert = "none"
  /\ nEvents < eventBudget
  /\ nEvents' = nEvents + 1
  /\ lastOp' = op

\* the screen renders its controls (not the "No image selected" view)
Rendered == image
InView == Rendered /\ editMode = "view"
InCrop == Rendered /\ editMode = "crop" /\ variant # "filter"

\* the size Image.getSize has reported
knownSize == IF originalImageSize = Null THEN Null ELSE originalImageSize[1]

\* ------------------------------------------------------------ loading
useImage ==
  /\ variant = "skia" /\ mounted /\ ~image
  /\ image' = TRUE
  /\ lastOp' = "useImage"
  /\ UNCHANGED <<session, originalImageSize, editMode, isProcessing, sv,
                 anim, gesture, filterState, exports, alert, mounted, out,
                 lastDone, beforeCrop, nEvents>>

getSize(size) ==
  /\ variant # "filter" /\ mounted /\ originalImageSize = Null
  /\ originalImageSize' = <<size>>
  /\ lastOp' = "getSize"
  /\ UNCHANGED <<session, image, editMode, isProcessing, sv, anim,
                 gesture, filterState, exports, alert, mounted, out, lastDone, beforeCrop,
                 nEvents>>

\* ------------------------------------------------------------ transform
pinchEnabled == \/ variant = "gesture" /\ InCrop
                \/ variant = "filter"
panEnabled == pinchEnabled

pinchOnStart ==
  /\ pinchEnabled /\ ~gesture.pinching
  /\ UserEvent("pinchStart")
  /\ gesture' = [gesture EXCEPT !.pinching = TRUE, !.startScale = sv["scale"]]
  /\ UNCHANGED <<session, image, originalImageSize, editMode,
                 isProcessing, sv, anim, filterState, exports, alert, mounted,
                 out, lastDone, beforeCrop>>

\* a pinch update without the clamp
pinchScaleUnclamped(startScale, eventScale) == RMul(startScale, eventScale)

\* Math.max(0.5, Math.min(3, context.startScale * event.scale))
pinchScale(startScale, eventScale) ==
  RMax(<<1, 2>>, RMin(R(3), RMul(startScale, eventScale)))

pinchOnActive(eventScale) ==
  /\ pinchEnabled /\ gesture.pinching
  /\ UserEvent("pinchActive")
  /\ Apply([scale |-> pinchScale(gesture.startScale, eventScale)], None)
  /\ UNCHANGED <<session, image, originalImageSize, editMode,
                 isProcessing, gesture, filterState, exports, alert, mounted,
                 out, lastDone, beforeCrop>>

\* a pinch that commits its scale when the fingers lift
pinchOnEndCommits ==
  /\ pinchEnabled /\ gesture.pinching
  /\ UserEvent("pinchEnd")
  /\ gesture' = [gesture EXCEPT !.pinching = FALSE]
  /\ Apply([committedScale |-> sv["scale"]],
           IF RLt(sv["scale"], R(1)) THEN [scale |-> R(1)] ELSE None)
  /\ UNCHANGED <<session, image, originalImageSize, editMode,
                 isProcessing, filterState, exports, alert, mounted, out,
                 lastDone, beforeCrop>>

\* pinchHandler.onEnd
pinchOnEnd ==
  /\ pinchEnabled /\ gesture.pinching
  /\ UserEvent("pinchEnd")
  /\ gesture' = [gesture EXCEPT !.pinching = FALSE]
  /\ IF RLt(sv["scale"], R(1))
     THEN Apply(None, [scale |-> R(1)])
     ELSE UNCHANGED <<sv, anim>>
  /\ UNCHANGED <<session, image, originalImageSize, editMode,
                 isProcessing, filterState, exports, alert, mounted, out,
                 lastDone, beforeCrop>>

panOnStart ==
  /\ panEnabled /\ ~gesture.panning
  /\ UserEvent("panStart")
  /\ gesture' = [gesture EXCEPT !.panning = TRUE, !.startX = sv["translateX"],
                                !.startY = sv["translateY"]]
  /\ UNCHANGED <<session, image, originalImageSize, editMode,
                 isProcessing, sv, anim, filterState, exports, alert, mounted,
                 out, lastDone, beforeCrop>>

panOnActive(translation) ==
  LET x == RAdd(gesture.startX, R(translation[1]))
      y == RAdd(gesture.startY, R(translation[2]))
  IN  /\ panEnabled /\ gesture.panning
      /\ RLe(R(-MaxPan), x) /\ RLe(x, R(MaxPan))
      /\ RLe(R(-MaxPan), y) /\ RLe(y, R(MaxPan))
      /\ UserEvent("panActive")
      /\ Apply([translateX |-> x, translateY |-> y], None)
      /\ UNCHANGED <<session, image, originalImageSize, editMode,
                     isProcessing, gesture, filterState, exports, alert,
                     mounted, out, lastDone, beforeCrop>>

\* the pan handler has no onEnd: lifting the finger only ends the gesture
panOnEnd ==
  /\ panEnabled /\ gesture.panning
  /\ UserEvent("panEnd")
  /\ gesture' = [gesture EXCEPT !.panning = FALSE]
  /\ UNCHANGED <<session, image, originalImageSize, editMode,
                 isProcessing, sv, anim, filterState, exports, alert, mounted,
                 out, lastDone, beforeCrop>>

rotate90(r) == RMod(RAdd(r, R(90)), 360)

handleRotate ==
  /\ InCrop \/ variant = "filter"
  /\ UserEvent("rotate")
  /\ IF variant = "filter"
     THEN Apply([rotation |-> rotate90(sv["rotation"])], None)
     ELSE Apply(None, [rotation |-> rotate90(sv["rotation"])])
  /\ UNCHANGED <<session, image, originalImageSize, editMode,
                 isProcessing, gesture, filterState, exports, alert, mounted,
                 out, lastDone, beforeCrop>>

\* a reset that forgets the rotation
resetTargetKeepsRotation ==
  IF variant = "filter" THEN Identity
  ELSE [CommittedTransform EXCEPT !.rotation = sv["rotation"]]

\* what handleReset drives the active transform to
resetTarget ==
  IF variant = "filter" THEN Identity ELSE CommittedTransform

resetToCommitted ==
  IF variant = "filter"
  THEN Apply([rotation |-> resetTarget.rotation],
             [n \in Active \ {"rotation"} |-> resetTarget[n]])
  ELSE Apply(None, resetTarget)

\* the Reset button: gesture (crop controls) and filter; skia has none
handleReset ==
  /\ (variant = "gesture" /\ InCrop) \/ variant = "filter"
  /\ UserEvent("reset")
  /\ resetToCommitted
  /\ filterState' = [filterState EXCEPT !.filtered = FALSE]
  /\ UNCHANGED <<session, image, originalImageSize, editMode,
                 isProcessing, gesture, exports, alert, mounted, out, lastDone, beforeCrop>>

\* leaving crop mode disables the gesture handlers, which cancels a gesture
\* in progress without calling onEnd
gestureCancelled == [gesture EXCEPT !.pinching = FALSE, !.panning = FALSE]

handleEnterCropMode ==
  /\ InView /\ variant # "filter"
  /\ UserEvent("enterCrop")
  /\ editMode' = "crop"
  /\ beforeCrop' = [transform |-> CommittedTransform, crop |-> CropRect]
  /\ UNCHANGED <<session, image, originalImageSize, isProcessing, sv,
                 anim, gesture, filterState, exports, alert, mounted, out,
                 lastDone>>

handleCancelCrop ==
  /\ InCrop
  /\ UserEvent("cancelCrop")
  /\ resetToCommitted
  /\ editMode' = "view"
  /\ gesture' = gestureCancelled
  /\ UNCHANGED <<session, image, originalImageSize, isProcessing,
                 filterState, exports, alert, mounted, out, lastDone, beforeCrop>>

\* a commit that leaves the rotation out
commitWithoutRotation ==
  [committedScale |-> sv["scale"], committedTranslateX |-> sv["translateX"],
   committedTranslateY |-> sv["translateY"],
   committedRotation |-> sv["committedRotation"]]

\* handleDoneCrop: the committed values take the active values
commit ==
  [committedScale |-> sv["scale"], committedTranslateX |-> sv["translateX"],
   committedTranslateY |-> sv["translateY"], committedRotation |-> sv["rotation"]]

handleDoneCrop ==
  /\ InCrop
  /\ UserEvent("doneCrop")
  /\ Apply(commit, None)
  /\ lastDone' = ActiveTransform
  /\ editMode' = "view"
  /\ gesture' = gestureCancelled
  /\ UNCHANGED <<session, image, originalImageSize, isProcessing,
                 filterState, exports, alert, mounted, out, beforeCrop>>

\* ------------------------------------------------------------ crop region
\* the GestureDetector of the resize handle is mounted in both modes
resizeEnabled == variant = "skia" /\ Rendered

panGesture(change) ==
  LET w == RAdd(sv["cropWidth"], R(change[1]))
      h == RAdd(sv["cropHeight"], R(change[2]))
  IN  /\ resizeEnabled
      /\ RLe(R(-MaxExtent), w) /\ RLe(w, R(MaxExtent))
      /\ RLe(R(-MaxExtent), h) /\ RLe(h, R(MaxExtent))
      /\ UserEvent("resize")
      /\ Apply([cropWidth |-> w, cropHeight |-> h], None)
      /\ UNCHANGED <<session, image, originalImageSize, editMode,
                     isProcessing, gesture, filterState, exports, alert,
                     mounted, out, lastDone, beforeCrop>>

\* a snap whose second fallback caps the width and keeps the height
aspectRatioSizeWidthCapOnly(width, ratio) ==
  LET canvasWidth == R(screen.width)
      canvasHeight == R(screen.height - 200)
      w0 == width
      h0 == RDiv(w0, ratio)
      h1 == IF RLt(canvasHeight, h0) THEN canvasHeight ELSE h0
      w1 == IF RLt(canvasHeight, h0) THEN RMul(h1, ratio) ELSE w0
      w2 == IF RLt(canvasWidth, w1) THEN canvasWidth ELSE w1
  IN  [width |-> w2, height |-> h1]

\* newWidth and newHeight of handleAspectRatioPress
aspectRatioSize(width, ratio) ==
  LET canvasWidth == R(screen.width)
      canvasHeight == R(screen.height - 200)
      w0 == width
      h0 == RDiv(w0, ratio)
      h1 == IF RLt(canvasHeight, h0) THEN canvasHeight ELSE h0
      w1 == IF RLt(canvasHeight, h0) THEN RMul(h1, ratio) ELSE w0
      w2 == IF RLt(canvasWidth, w1) THEN canvasWidth ELSE w1
      h2 == IF RLt(canvasWidth, w1) THEN RDiv(w2, ratio) ELSE h1
  IN  [width |-> w2, height |-> h2]

\* the snap without the adjustment for the header
aspectRatioTargetNoHeader(width, ratio) ==
  LET canvasHeight == R(screen.height - 200)
      new == aspectRatioSize(width, ratio)
  IN  [cropX |-> RDiv(RSub(R(screen.width), new.width), R(2)),
       cropY |-> RDiv(RSub(canvasHeight, new.height), R(2)),
       cropWidth |-> new.width,
       cropHeight |-> new.height]

\* the rectangle handleAspectRatioPress springs the crop rectangle to
aspectRatioTarget(width, ratio) ==
  LET canvasHeight == R(screen.height - 200)
      new == aspectRatioSize(width, ratio)
  IN  [cropX |-> RDiv(RSub(R(screen.width), new.width), R(2)),
       cropY |-> RAdd(RDiv(RSub(canvasHeight, new.height), R(2)), R(100)),
       cropWidth |-> new.width,
       cropHeight |-> new.height]

handleAspectRatioPress(ratio) ==
  /\ variant = "skia" /\ InCrop
  /\ UserEvent("aspectRatio")
  /\ Apply(None, aspectRatioTarget(sv["cropWidth"], ratio))
  /\ UNCHANGED <<session, image, originalImageSize, editMode,
                 isProcessing, gesture, filterState, exports, alert, mounted,
                 out, lastDone, beforeCrop>>

\* ------------------------------------------------------------ export request
\* part_004: scale, offsetX and offsetY of handleSave, "how the image is
\* displayed with fit: 'contain'"
containFit(size) ==
  LET scaleX == RDiv(R(screen.width), R(size.width))
      scaleY == RDiv(R(screen.height - 300), R(size.height))
      scale == RMin(scaleX, scaleY)
      displayedWidth == RMul(R(size.width), scale)
      displayedHeight == RMul(R(size.height), scale)
  IN  [scale |-> scale,
       offsetX |-> RDiv(RSub(R(screen.width), displayedWidth), R(2)),
       offsetY |-> RDiv(RSub(R(screen.height), displayedHeight), R(2))]

\* part_004: the crop rectangle in image pixels
cropData004(c, size) ==
  LET fit == containFit(size)
  IN  [originX |-> RDiv(RSub(c["cropX"], fit.offsetX), fit.scale),
       originY |-> RDiv(RSub(c["cropY"], fit.offsetY), fit.scale),
       width |-> RDiv(c["cropWidth"], fit.scale),
       height |-> RDiv(c["cropHeight"], fit.scale)]

\* part_005: the committed zoom and pan about the image centre
cropData005(t, size) ==
  LET displayScale == RDiv(R(size.width), R(CROP_AREA_SIZE * 2))
      w == RDiv(R(size.width), t.scale)
      h == RDiv(R(size.height), t.scale)
  IN  [originX |-> RSub(RDiv(RSub(R(size.width), w), R(2)),
                        RMul(t.translateX, displayScale)),
       originY |-> RSub(RDiv(RSub(R(size.height), h), R(2)),
                        RMul(t.translateY, displayScale)),
       width |-> w,
       height |-> h]

\* edit.tsx: the image is taken to fill twice the crop area
cropDataEdit(t) ==
  LET imageSize == R(CROP_AREA_SIZE * 2)
      half == RDiv(RSub(imageSize, R(CROP_AREA_SIZE)), R(2))
  IN  [originX |-> RMax(R(0), RSub(half, RDiv(t.translateX, t.scale))),
       originY |-> RMax(R(0), RSub(half, RDiv(t.translateY, t.scale))),
       width |-> RMin(imageSize, RDiv(R(CROP_AREA_SIZE), t.scale)),
       height |-> RMin(imageSize, RDiv(R(CROP_AREA_SIZE), t.scale))]

cropOp(rect) == [op |-> "crop", crop |-> rect]
rotateOp(degrees) == [op |-> "rotate", rotate |-> degrees]

\* part_004 and part_005 push the crop, then the rotation
manipulationsCropFirst(rect, rotation) ==
  <<cropOp(rect)>> \o (IF rotation # R(0) THEN <<rotateOp(rotation)>> ELSE <<>>)

\* edit.tsx pushes the rotation, then the crop
manipulationsRotateFirst(rect, rotation) ==
  (IF rotation # R(0) THEN <<rotateOp(rotation)>> ELSE <<>>) \o <<cropOp(rect)>>

\* the list handleSave hands to ImageManipulator.manipulateAsync: v the
\* version, t the transform it reads, c the crop rectangle, size the image size
manipulations(v, t, c, size) ==
  CASE v = "skia" -> manipulationsCropFirst(cropData004(c, size), t.rotation)
    [] v = "gesture" -> manipulationsCropFirst(cropData005(t, size), t.rotation)
    [] v = "filter" -> manipulationsRotateFirst(cropDataEdit(t), t.rotation)

\* the transform handleSave reads
savedTransform ==
  IF variant = "filter" THEN ActiveTransform ELSE CommittedTransform

\* ------------------------------------------------------------ save
\* a Save button that is never disabled
saveAlwaysEnabled == TRUE

\* the Save button: <Pressable onPress={handleSave} disabled={isProcessing}>
saveEnabled == ~isProcessing

Remove(q, i) == SubSeq(q, 1, i - 1) \o SubSeq(q, i + 1, Len(q))

\* ImageManipulator.manipulateAsync(uri, request, ...): the call is counted
\* and its number stands for the image it will return
manipulateAsync(request) ==
  out' = [out EXCEPT !.manipulateCalls = @ + 1, !.request = request]

\* a save that hands the source image to the media library without waiting
\* for the manipulation
startSaveNoAwait ==
  IF variant # "filter" /\ originalImageSize = Null
  THEN UNCHANGED <<isProcessing, exports, out>>
  ELSE /\ isProcessing' = TRUE
       /\ out' = [out EXCEPT !.manipulateCalls = @ + 1,
                             !.request = manipulations(variant, savedTransform,
                                                       CropRect, knownSize),
                             !.persistCalls = @ + 1,
                             !.persisted = <<0>>]
       /\ exports' = Append(exports, [stage |-> "persisting",
                                      rotation |-> sv["rotation"],
                                      call |-> out.manipulateCalls + 1])

\* handleSave once the button has let the press through
startSave ==
  IF variant # "filter" /\ originalImageSize = Null
  THEN UNCHANGED <<isProcessing, exports, out>>
  ELSE /\ isProcessing' = TRUE
       /\ IF variant = "filter" /\ filterState.filtered
          THEN /\ manipulateAsync(<<>>)
               /\ exports' = Append(exports, [stage |-> "filtering",
                                              rotation |-> sv["rotation"],
                                              call |-> out.manipulateCalls + 1])
          ELSE /\ manipulateAsync(
                    manipulations(variant, savedTransform, CropRect,
                                  IF variant = "filter" THEN Null
                                  ELSE originalImageSize[1]))
               /\ exports' = Append(exports, [stage |-> "manipulating",
                                              rotation |-> sv["rotation"],
                                              call |-> out.manipulateCalls + 1])

\* a press on the Save button of the view header; a disabled button swallows it
handleSave ==
  /\ InView
  /\ Len(exports) < MaxExports
  /\ IF saveEnabled
     THEN UserEvent("save") /\ startSave
     ELSE UserEvent("saveDisabled") /\ UNCHANGED <<isProcessing, exports, out>>
  /\ UNCHANGED <<session, image, originalImageSize, editMode, sv, anim,
                 gesture, filterState, alert, mounted, lastDone, beforeCrop>>

\* edit.tsx: the filter pass has returned; the crop is computed now, from the
\* shared values as they are now and the rotation the handler closed over
filterResolved(i) ==
  /\ exports[i].stage = "filtering"
  /\ manipulateAsync(
       manipulations("filter",
                     [ActiveTransform EXCEPT !.rotation = exports[i].rotation],
                     CropRect, Null))
  /\ exports' = [exports EXCEPT ![i].stage = "manipulating",
                                ![i].call = out.manipulateCalls + 1]
  /\ lastOp' = "filterResolved"
  /\ UNCHANGED <<session, image, originalImageSize, editMode,
                 isProcessing, sv, anim, gesture, filterState, alert, mounted,
                 lastDone, beforeCrop, nEvents>>

\* manipulateAsync has returned manipulatedImage:
\* MediaLibrary.createAssetAsync(manipulatedImage.uri)
manipulateResolved(i) ==
  /\ exports[i].stage = "manipulating"
  /\ exports' = [exports EXCEPT ![i].stage = "persisting"]
  /\ out' = [out EXCEPT !.persistCalls = @ + 1,
                        !.persisted = <<exports[i].call>>]
  /\ lastOp' = "manipulateResolved"
  /\ UNCHANGED <<session, image, originalImageSize, editMode,
                 isProcessing, sv, anim, gesture, filterState, alert, mounted,
                 lastDone, beforeCrop, nEvents>>

\* a success path that leaves isProcessing set
createAssetResolvedNoFinally(i) ==
  /\ exports[i].stage = "persisting"
  /\ exports' = Remove(exports, i)
  /\ CASE variant = "skia" ->
            /\ out' = [out EXCEPT !.assets = @ + 1, !.back = @ + 1]
            /\ mounted' = FALSE
            /\ alert' = alert
       [] variant = "gesture" ->
            /\ out' = [out EXCEPT !.assets = @ + 1]
            /\ alert' = "success"
            /\ mounted' = mounted
       [] variant = "filter" ->
            /\ alert' = "success"
            /\ UNCHANGED <<out, mounted>>
  /\ lastOp' = "saved"
  /\ UNCHANGED <<session, image, originalImageSize, editMode, isProcessing, sv,
                 anim, gesture, filterState, lastDone, beforeCrop, nEvents>>

\* MediaLibrary.createAssetAsync has returned the new asset
createAssetResolved(i) ==
  /\ exports[i].stage = "persisting"
  /\ exports' = Remove(exports, i)
  /\ isProcessing' = FALSE
  /\ CASE variant = "skia" ->
            /\ out' = [out EXCEPT !.assets = @ + 1, !.back = @ + 1]
            /\ mounted' = FALSE
            /\ alert' = alert
       [] variant = "gesture" ->
            /\ out' = [out EXCEPT !.assets = @ + 1]
            /\ alert' = "success"
            /\ mounted' = mounted
       [] variant = "filter" ->
            /\ alert' = "success"
            /\ UNCHANGED <<out, mounted>>
  /\ lastOp' = "saved"
  /\ UNCHANGED <<session, image, originalImageSize, editMode, sv, anim,
                 gesture, filterState, lastDone, beforeCrop, nEvents>>

\* a catch without the finally block
saveFailedNoFinally(i) ==
  /\ exports' = Remove(exports, i)
  /\ out' = [out EXCEPT !.errorAlerts = @ + 1]
  /\ alert' = "error"
  /\ lastOp' = "saveFailed"
  /\ UNCHANGED <<session, image, originalImageSize, editMode,
                 isProcessing, sv, anim, gesture, filterState, mounted,
                 lastDone, beforeCrop, nEvents>>

\* catch: Alert.alert('Error', ...); finally: setIsProcessing(false)
saveFailed(i) ==
  /\ exports' = Remove(exports, i)
  /\ out' = [out EXCEPT !.errorAlerts = @ + 1]
  /\ alert' = "error"
  /\ isProcessing' = FALSE
  /\ lastOp' = "saveFailed"
  /\ UNCHANGED <<session, image, originalImageSize, editMode, sv, anim,
                 gesture, filterState, mounted, lastDone, beforeCrop, nEvents>>

manipulateRejected(i) ==
  /\ exports[i].stage \in {"filtering", "manipulating"}
  /\ saveFailed(i)

createAssetRejected(i) ==
  /\ exports[i].stage = "persisting"
  /\ saveFailed(i)

\* the OK button of the success Alert: router.back()
alertOK ==
  /\ alert = "success"
  /\ alert' = "none"
  /\ out' = [out EXCEPT !.back = @ + 1]
  /\ mounted' = FALSE
  /\ lastOp' = "alertOK"
  /\ UNCHANGED <<session, image, originalImageSize, editMode,
                 isProcessing, sv, anim, gesture, filterState, exports,
                 lastDone, beforeCrop, nEvents>>

alertDismiss ==
  /\ alert = "error"
  /\ alert' = "none"
  /\ lastOp' = "alertDismiss"
  /\ UNCHANGED <<session, image, originalImageSize, editMode,
                 isProcessing, sv, anim, gesture, filterState, exports, mounted,
                 out, lastDone, beforeCrop, nEvents>>

\* the Cancel button of the view header: router.back()
handleCancel ==
  /\ InView
  /\ UserEvent("cancel")
  /\ out' = [out EXCEPT !.back = @ + 1, !.cancels = @ + 1]
  /\ mounted' = FALSE
  /\ UNCHANGED <<session, image, originalImageSize, editMode,
                 isProcessing, sv, anim, gesture, filterState, exports, alert,
                 lastDone, beforeCrop>>

\* ------------------------------------------------------------ filters (edit.tsx)
toggleFilters ==
  /\ variant = "filter"
  /\ UserEvent("toggleFilters")
  /\ filterState' = [filterState EXCEPT !.showFilters = ~@]
  /\ UNCHANGED <<session, image, originalImageSize, editMode,
                 isProcessing, sv, anim, gesture, exports, alert, mounted, out,
                 lastDone, beforeCrop>>

setSelectedFilter(filtered) ==
  /\ variant = "filter" /\ filterState.showFilters
  /\ UserEvent("selectFilter")
  /\ filterState' = [filterState EXCEPT !.filtered = filtered]
  /\ UNCHANGED <<session, image, originalImageSize, editMode,
                 isProcessing, sv, anim, gesture, exports, alert, mounted, out,
                 lastDone, beforeCrop>>

\* ------------------------------------------------------------ specification
Next ==
  \/ useImage
  \/ \E size \in ImageSizes : getSize(size)
  \/ Frame
  \/ pinchOnStart
  \/ \E f \in PinchFactors : pinchOnActive(f)
  \/ pinchOnEnd
  \/ panOnStart
  \/ \E t \in PanTranslations : panOnActive(t)
  \/ panOnEnd
  \/ handleRotate
  \/ handleReset
  \/ handleEnterCropMode
  \/ handleCancelCrop
  \/ handleDoneCrop
  \/ \E c \in ResizeChanges : panGesture(c)
  \/ \E r \in AspectRatios : handleAspectRatioPress(r)
  \/ handleSave
  \/ \E i \in DOMAIN exports : filterResolved(i)
  \/ \E i \in DOMAIN exports : manipulateResolved(i)
  \/ \E i \in DOMAIN exports : manipulateRejected(i)
  \/ \E i \in DOMAIN exports : createAssetResolved(i)
  \/ \E i \in DOMAIN exports : createAssetRejected(i)
  \/ alertOK
  \/ alertDismiss
  \/ handleCancel
  \/ toggleFilters
  \/ \E f \in BOOLEAN : setSelectedFilter(f)

Spec == Init /\ [][Next]_vars

\* ------------------------------------------------------------ geometry
\* The crop screen of part_004 on several windows and images, followed from
\* the crop rectangle on screen to the rectangle handleSave exports.
GeometryScreens ==
  {[width |-> 360, height |-> 800], [width |-> 400, height |-> 800],
   [width |-> 320, height |-> 568]}
GeometryImageSizes ==
  {[width |-> 1000, height |-> 2000], [width |-> 1000, height |-> 1000],
   [width |-> 2000, height |-> 1000]}
GeometryResizeChanges == {<<100, 0>>, <<60, 60>>}

InitGeometry == Start({"skia"}, GeometryScreens, MaxEvents + 1)

NextGeometry ==
  \/ useImage
  \/ \E size \in GeometryImageSizes : getSize(size)
  \/ Frame
  \/ handleEnterCropMode
  \/ handleDoneCrop
  \/ \E c \in GeometryResizeChanges : panGesture(c)
  \/ \E r \in AspectRatios : handleAspectRatioPress(r)
  \/ handleSave
  \/ \E i \in DOMAIN exports : manipulateResolved(i)
  \/ \E i \in DOMAIN exports : createAssetResolved(i)

SpecGeometry == InitGeometry /\ [][NextGeometry]_vars

\* ------------------------------------------------------------ crop sessions
\* The transform of part_005 alone, followed through two visits to crop mode.
InitCrop == Start({"gesture"}, Screens, MaxEvents + 2)

NextCrop ==
  \/ Frame
  \/ pinchOnStart
  \/ \E f \in PinchFactors : pinchOnActive(f)
  \/ pinchOnEnd
  \/ panOnStart
  \/ \E t \in PanTranslations : panOnActive(t)
  \/ panOnEnd
  \/ handleRotate
  \/ handleReset
  \/ handleEnterCropMode
  \/ handleCancelCrop
  \/ handleDoneCrop

SpecCrop == InitCrop /\ [][NextCrop]_vars

\* ------------------------------------------------------------ exports
\* The save of all three versions with the presses that can fall into it,
\* and external calls that do return.
NextExport ==
  \/ useImage
  \/ \E size \in ImageSizes : getSize(size)
  \/ handleEnterCropMode
  \/ handleCancelCrop
  \/ handleSave
  \/ \E i \in DOMAIN exports : filterResolved(i)
  \/ \E i \in DOMAIN exports : manipulateResolved(i)
  \/ \E i \in DOMAIN exports : manipulateRejected(i)
  \/ \E i \in DOMAIN exports : createAssetResolved(i)
  \/ \E i \in DOMAIN exports : createAssetRejected(i)
  \/ alertOK
  \/ alertDismiss
  \/ handleCancel
  \/ toggleFilters
  \/ \E f \in BOOLEAN : setSelectedFilter(f)

\* every pending call to the manipulation primitive or the media library
\* resolves or rejects
ExternalCallsReturn ==
  /\ WF_vars(\E i \in DOMAIN exports :
               filterResolved(i) \/ manipulateResolved(i) \/ manipulateRejected(i))
  /\ WF_vars(\E i \in DOMAIN exports :
               createAssetResolved(i) \/ createAssetRejected(i))

SpecExport == Init /\ [][NextExport]_vars /\ ExternalCallsReturn

\* ------------------------------------------------------------ snapping
\* The crop rectangle of part_004 alone: resized by the handle and snapped by
\* the aspect-ratio buttons, on the same windows.
SnapResizeChanges == {<<60, 60>>, <<100, 0>>, <<200, 0>>, <<300, 0>>, <<-300, 0>>}

InitSnap == Start({"skia"}, GeometryScreens, MaxEvents)

NextSnap ==
  \/ useImage
  \/ Frame
  \/ handleEnterCropMode
  \/ handleCancelCrop
  \/ \E c \in SnapResizeChanges : panGesture(c)
  \/ \E r \in AspectRatios : handleAspectRatioPress(r)

SpecSnap == InitSnap /\ [][NextSnap]_vars

\* ------------------------------------------------------------ the gallery tab
\* MediaLibrary.getAssetsAsync({first: PAGE_SIZE, after}): the page after the
\* cursor, the cursor of its last asset, and whether more follow
getAssetsAsync(after) ==
  IF after < home.library
  THEN [assets |-> <<after + 1>>, endCursor |-> after + 1,
        hasNextPage |-> after + 1 < home.library]
  ELSE [assets |-> <<>>, endCursor |-> after, hasNextPage |-> FALSE]

\* what HomeScreen renders: the FlatList comes after the early returns for
\* isLoading, permissionResponse, error and !granted
FlatListShown ==
  /\ ~home.isLoading
  /\ home.permissionResponse = "granted"
  /\ ~home.error

HomeEvent(op, h) ==
  /\ home.events < MaxHomeEvents
  /\ home' = [h EXCEPT !.lastOp = op, !.events = home.events + 1]

\* loadMedia(): the first page replaces the list
loadMedia(h) ==
  IF h.permissionResponse = "granted"
  THEN [h EXCEPT !.isLoading = TRUE, !.error = FALSE,
                 !.requests = Append(h.requests, [fn |-> "loadMedia",
                                                  after |-> Undefined])]
  ELSE h

\* loadMoreMedia() without its guard
loadMoreMediaUnguarded(h) ==
  [h EXCEPT !.isLoadingMore = TRUE,
            !.requests = Append(h.requests, [fn |-> "loadMoreMedia",
                                             after |-> h.endCursor])]

\* loadMoreMedia(): the page after endCursor, unless there is none or a
\* request for it is running
loadMoreMedia(h) ==
  IF ~h.hasNextPage \/ h.isLoadingMore
  THEN h
  ELSE [h EXCEPT !.isLoadingMore = TRUE,
                 !.requests = Append(h.requests, [fn |-> "loadMoreMedia",
                                                  after |-> h.endCursor])]

\* MediaLibrary.usePermissions() reports; the effect on
\* permissionResponse?.granted loads the first page
permissionsLoaded(granted) ==
  /\ home.permissionResponse = "loading"
  /\ home' = [loadMedia([home EXCEPT !.permissionResponse =
                                       IF granted THEN "granted" ELSE "denied"])
                EXCEPT !.lastOp = "permissionsLoaded"]

\* the Grant Permission button, and the user's answer
requestPermission(granted) ==
  /\ ~home.isLoading
  /\ ~home.error
  /\ home.permissionResponse = "denied"
  /\ HomeEvent("requestPermission",
               loadMedia([home EXCEPT !.permissionResponse =
                                       IF granted THEN "granted" ELSE "denied"]))

\* the Try Again button of the error view
tryAgain ==
  /\ ~home.isLoading
  /\ home.permissionResponse # "loading"
  /\ home.error
  /\ HomeEvent("tryAgain", loadMedia(home))

\* FlatList onEndReached={loadMoreMedia}
onEndReached ==
  /\ FlatListShown
  /\ HomeEvent(IF loadMoreMedia(home) = home THEN "loadMoreSkipped"
                                              ELSE "loadMoreMedia",
               loadMoreMedia(home))

RemoveAt(s, i) == SubSeq(s, 1, i - 1) \o SubSeq(s, i + 1, Len(s))

\* the await of request i returns: try, catch and finally of its function
getAssetsResolved(i, ok) ==
  /\ i \in DOMAIN home.requests
  /\ LET req == home.requests[i]
         page == getAssetsAsync(req.after)
         rest == [home EXCEPT !.requests = RemoveAt(home.requests, i)]
     IN home' =
          IF req.fn = "loadMedia"
          THEN IF ok
               THEN [rest EXCEPT !.media = page.assets,
                                 !.endCursor = page.endCursor,
                                 !.hasNextPage = page.hasNextPage,
                                 !.isLoading = FALSE,
                                 !.lastOp = "loaded"]
               ELSE [rest EXCEPT !.error = TRUE,
                                 !.isLoading = FALSE,
                                 !.lastOp = "loadFailed"]
          ELSE IF ok
               THEN [rest EXCEPT !.media = home.media \o page.assets,
                                 !.endCursor = page.endCursor,
                                 !.hasNextPage = page.hasNextPage,
                                 !.isLoadingMore = FALSE,
                                 !.lastOp = "loadedMore"]
               ELSE [rest EXCEPT !.isLoadingMore = FALSE,
                                 !.lastOp = "loadMoreFailed"]

\* the edit screen, which is not open while the gallery tab is followed
editScreen == <<variant, screen, image, originalImageSize, editMode,
                isProcessing, sv, anim, gesture, filterState, exports, alert,
                mounted, out, lastDone, beforeCrop, lastOp, nEvents,
                eventBudget>>

InitHome ==
  /\ EditScreen({"skia"}, {CHOOSE s \in Screens : TRUE}, 0)
  /\ \E pages \in 0..MaxPages : home = HomeScreen(pages)

NextHome ==
  \/ \E granted \in BOOLEAN : permissionsLoaded(granted) /\ UNCHANGED editScreen
  \/ \E granted \in BOOLEAN : requestPermission(granted) /\ UNCHANGED editScreen
  \/ tryAgain /\ UNCHANGED editScreen
  \/ onEndReached /\ UNCHANGED editScreen
  \/ \E i \in 1..(MaxHomeEvents + 1), ok \in BOOLEAN :
       getAssetsResolved(i, ok) /\ UNCHANGED editScreen

SpecHome == InitHome /\ [][NextHome]_vars

\* <SkiaImage x={0} y={0} width={screenWidth} height={screenHeight}
\* fit="contain">: where the image is drawn, in the crop rectangle's terms
SkiaImage(size) ==
  LET scale == RMin(RDiv(R(screen.width), R(size.width)),
                    RDiv(R(screen.height), R(size.height)))
      width == RMul(R(size.width), scale)
      height == RMul(R(size.height), scale)
  IN  [cropX |-> RDiv(RSub(R(screen.width), width), R(2)),
       cropY |-> RDiv(RSub(R(screen.height), height), R(2)),
       cropWidth |-> width,
       cropHeight |-> height]

\* ------------------------------------------------------------ properties
\* a step that hands a crop/rotate request to the manipulation primitive
NewRequest ==
  /\ out'.manipulateCalls > out.manipulateCalls
  /\ Len(out'.request) > 0

\* a step that is the user event `ops` names
IsEvent(ops) == nEvents' > nEvents /\ lastOp' \in ops

\* the value an animated shared value comes to rest at
Settled(n) == IF anim[n] = NoAnim THEN sv[n] ELSE anim[n][1]

\* the rectangle of the crop operation of a request
cropOf(q) == LET k == CHOOSE k \in DOMAIN q : q[k].op = "crop" IN q[k].crop

\* C1: every request save() hands to the manipulation primitive is the one
\* computed from the transform copied at the last done-crop (the identity if
\* done was never pressed) and the current crop rectangle. (In edit.tsx the
\* rotation is a plain state value the Rotate button sets; there only the crop
\* rectangle is compared.)
C1_ExportUsesCommitted ==
  [][NewRequest =>
       LET expected == manipulations(variant, lastDone, CropRect, knownSize)
       IN  /\ cropOf(out'.request) = cropOf(expected)
           /\ variant # "filter" => out'.request = expected]_vars

\* C1 restricted to the versions that have a done-crop (part_004, part_005)
C1_HoldsWithModes ==
  [][NewRequest /\ variant # "filter" =>
       out'.request = manipulations(variant, lastDone, CropRect, knownSize)]_vars

\* C2: single-flight save: at most one export is in flight at any time; a
\* save pressed while one is in flight starts nothing.
C2_SingleFlightSave ==
  /\ Len(exports) <= 1
  /\ (variant # "filter" =>
        out.manipulateCalls = out.assets + out.errorAlerts + Len(exports))

C2_Witness ==
  /\ lastOp = "saveDisabled"
  /\ Len(exports) = 1
  /\ out.manipulateCalls = 1

\* C3: a request built with a rotation other than 0 holds exactly one rotate
\* operation, placed before the crop operation; with rotation 0 it holds the
\* crop operation alone.
C3_RotateBeforeCrop ==
  [][NewRequest /\ IsEvent({"save"}) =>
       LET q == out'.request
           r == savedTransform.rotation
       IN  IF r = R(0)
           THEN Len(q) = 1 /\ q[1].op = "crop"
           ELSE Len(q) = 2 /\ q[1] = rotateOp(r) /\ q[2].op = "crop"]_vars

C5_GesturesOnlyInCrop ==
  [][editMode = "view"
     /\ IsEvent({"pinchStart", "pinchActive", "pinchEnd",
                 "panStart", "panActive", "panEnd"}) =>
       /\ sv'["scale"] = sv["scale"]
       /\ sv'["translateX"] = sv["translateX"]
       /\ sv'["translateY"] = sv["translateY"]]_vars

\* C6: in view mode a drag on the crop handle and an aspect-ratio press leave
\* the crop rectangle unchanged.
C6_CropRectOnlyInCrop ==
  [][editMode = "view" /\ IsEvent({"resize", "aspectRatio"}) =>
       CropRect' = CropRect]_vars

\* C7: after every resize update the crop rectangle is at least 20 x 20 and
\* lies inside the viewport.
C7_ResizeClamped ==
  lastOp = "resize" =>
    /\ RLe(R(20), sv["cropWidth"]) /\ RLe(R(20), sv["cropHeight"])
    /\ RLe(R(0), sv["cropX"]) /\ RLe(R(0), sv["cropY"])
    /\ RLe(RAdd(sv["cropX"], sv["cropWidth"]), R(screen.width))
    /\ RLe(RAdd(sv["cropY"], sv["cropHeight"]), R(screen.height))

\* the image the crop is taken from: the measured size, or in edit.tsx the
\* size handleSave assumes
exportImage ==
  IF variant = "filter"
  THEN [width |-> CROP_AREA_SIZE * 2, height |-> CROP_AREA_SIZE * 2]
  ELSE knownSize

\* C8: the crop rectangle handed to the manipulation primitive lies inside
\* the image.
C8_CropInsideImage ==
  \A k \in DOMAIN out.request :
    out.request[k].op = "crop" =>
      LET c == out.request[k].crop
      IN  /\ RLe(R(0), c.originX) /\ RLe(R(0), c.originY)
          /\ RLe(R(0), c.width) /\ RLe(R(0), c.height)
          /\ RLe(RAdd(c.originX, c.width), R(exportImage.width))
          /\ RLe(RAdd(c.originY, c.height), R(exportImage.height))

\* C9: a rejected manipulation or persistence call raises exactly one error
\* alert, ends with isProcessing false, and changes neither the mode, the
\* committed transform, the crop rectangle, the gallery list nor the
\* navigation.
C9_FailureLeavesSession ==
  [][lastOp' = "saveFailed" /\ Len(exports') < Len(exports) =>
       /\ out'.errorAlerts = out.errorAlerts + 1
       /\ alert' = "error"
       /\ isProcessing' = FALSE
       /\ editMode' = editMode
       /\ CommittedTransform' = CommittedTransform
       /\ CropRect' = CropRect
       /\ out'.assets = out.assets
       /\ out'.back = out.back
       /\ mounted' = mounted]_vars

C9_Witness ==
  /\ lastOp = "saveFailed"
  /\ out.persistCalls = 1
  /\ out.errorAlerts = 1
  /\ out.assets = 0
  /\ ~isProcessing

\* C10: no export is in flight while the mode is crop: none starts in crop
\* mode and the mode does not become crop during one.
C10_NoExportInCrop ==
  ~(editMode = "crop" /\ Len(exports) > 0)

\* C11: once Cancel was pressed in view mode, no manipulation call and no
\* persistence call is started and no asset is prepended to the gallery
\* list, whether the cancel came before or during a save.
C11_CancelEndsSession ==
  [][out.cancels > 0 =>
       /\ out'.manipulateCalls = out.manipulateCalls
       /\ out'.persistCalls = out.persistCalls
       /\ out'.assets = out.assets]_vars

\* C12: done-crop, pressed in crop mode, makes the committed transform equal
\* to the active transform as it is at that moment (scale, translateX,
\* translateY and rotation), leaves the active transform as it is and sets
\* the mode to view; cancel-crop sets the mode to view as well.
C12_DoneCropCommits ==
  [][/\ IsEvent({"doneCrop"}) =>
          /\ editMode = "crop"
          /\ CommittedTransform' = ActiveTransform
          /\ ActiveTransform' = ActiveTransform
          /\ editMode' = "view"
     /\ IsEvent({"cancelCrop"}) => editMode = "crop" /\ editMode' = "view"]_vars

\* a done-crop has committed a pinched scale
C12_Witness ==
  /\ lastOp = "doneCrop"
  /\ editMode = "view"
  /\ CommittedTransform = lastDone
  /\ sv["committedScale"] # R(1)

\* C13: in every reachable state the active scale lies in [0.5, 3.0],
\* whatever pinch start/update/end events and scale factors came before, and
\* so does the committed scale.
C13_ScaleClamped ==
  /\ RLe(<<1, 2>>, sv["scale"]) /\ RLe(sv["scale"], R(3))
  /\ RLe(<<1, 2>>, sv["committedScale"]) /\ RLe(sv["committedScale"], R(3))

\* a pinch whose product left the range was clamped, and the clamped scale
\* was committed
C13_Witness ==
  /\ lastOp = "doneCrop"
  /\ RLt(R(3), RMul(gesture.startScale, R(4)))
  /\ sv["scale"] = R(3)
  /\ sv["committedScale"] = R(3)

\* the display mapping of the specification: contain-fit of an image in a
\* viewport, and a display rectangle taken to image space with it
displayMapping(size, viewport) ==
  LET scale == RMin(RDiv(R(viewport.width), R(size.width)),
                    RDiv(R(viewport.height), R(size.height)))
  IN  [scale |-> scale,
       offsetX |-> RDiv(RSub(R(viewport.width), RMul(R(size.width), scale)), R(2)),
       offsetY |-> RDiv(RSub(R(viewport.height), RMul(R(size.height), scale)), R(2))]

toImageSpace(c, m) ==
  [originX |-> RDiv(RSub(c["cropX"], m.offsetX), m.scale),
   originY |-> RDiv(RSub(c["cropY"], m.offsetY), m.scale),
   width |-> RDiv(c["cropWidth"], m.scale),
   height |-> RDiv(c["cropHeight"], m.scale)]

\* C14: the rectangle save() exports is the display crop rectangle taken to
\* image space by originX = (x - offsetX)/scale, originY = (y - offsetY)/scale,
\* width = w/scale, height = h/scale, with scale and offsets of the
\* contain-fit of the image in the viewport; for image 1000x2000, viewport
\* 400x800 and display rectangle {50, 100, 300, 300} the mapping is scale 0.4,
\* offsets 0 and the exported rectangle is {125, 250, 750, 750}.
C14_ExampleMapping ==
  [][(/\ NewRequest
      /\ knownSize = [width |-> 1000, height |-> 2000]
      /\ screen = [width |-> 400, height |-> 800]
      /\ CropRect = [cropX |-> R(50), cropY |-> R(100),
                     cropWidth |-> R(300), cropHeight |-> R(300)])
     => /\ displayMapping(knownSize, screen) =
             [scale |-> <<2, 5>>, offsetX |-> R(0), offsetY |-> R(0)]
        /\ cropOf(out'.request) =
             toImageSpace(CropRect, displayMapping(knownSize, screen))
        /\ cropOf(out'.request) =
             [originX |-> R(125), originY |-> R(250),
              width |-> R(750), height |-> R(750)]]_vars

\* within rounding tolerance: less than one pixel apart
Near(a, b) == RLt(RSub(a, b), R(1)) /\ RLt(RSub(b, a), R(1))

\* C15: round trip: when the crop rectangle exactly covers the image as it
\* is displayed (contain-fitted and centred), with the identity transform,
\* the rectangle save() exports is {0, 0, image.width, image.height} within
\* rounding tolerance, for every image size and viewport size.
C15_RoundTrip ==
  [][(/\ NewRequest
      /\ CommittedTransform = Identity
      /\ CropRect = SkiaImage(knownSize))
     => LET c == cropOf(out'.request)
        IN  /\ Near(c.originX, R(0))
            /\ Near(c.originY, R(0))
            /\ Near(c.width, R(knownSize.width))
            /\ Near(c.height, R(knownSize.height))]_vars

\* the rectangle the crop rectangle comes to rest at
SettledCropRect == [n \in Crop |-> Settled(n)]

\* rectangle c has its centre at (cx, cy) and lies in [0, width] x [top, bottom]
CentredInside(c, cx, cy, width, top, bottom) ==
  /\ RAdd(c["cropX"], RDiv(c["cropWidth"], R(2))) = cx
  /\ RAdd(c["cropY"], RDiv(c["cropHeight"], R(2))) = cy
  /\ RLe(R(0), c["cropX"])
  /\ RLe(top, c["cropY"])
  /\ RLe(RAdd(c["cropX"], c["cropWidth"]), width)
  /\ RLe(RAdd(c["cropY"], c["cropHeight"]), bottom)

\* C16: after an aspect-ratio press the target crop rectangle has its centre
\* at the centre of the canvas (screenWidth x (screenHeight - 200)) on both
\* axes and lies inside the canvas: x >= 0, y >= 0, x + width <= canvas
\* width, y + height <= canvas height; for ratio 1/1 it is a square.
C16_SnapCentred ==
  [][\A r \in AspectRatios :
       handleAspectRatioPress(r) =>
         LET canvasWidth == R(screen.width)
             canvasHeight == R(screen.height - 200)
         IN  /\ CentredInside(SettledCropRect', RDiv(canvasWidth, R(2)),
                              RDiv(canvasHeight, R(2)), canvasWidth,
                              R(0), canvasHeight)
             /\ r = <<1, 1>> =>
                  SettledCropRect'["cropWidth"] = SettledCropRect'["cropHeight"]]_vars

\* C16 as amended: the canvas area is the band of the screen that starts 100
\* px below the top: the target has its centre at (canvas width / 2,
\* 100 + canvas height / 2) and lies inside the band: x >= 0, y >= 100,
\* x + width <= canvas width, y + height <= 100 + canvas height; for ratio
\* 1/1 it is a square, {20, 240, 320, 320} from width 320 on a 360x600 canvas.
C16_SnapCentredInArea ==
  [][\A r \in AspectRatios :
       handleAspectRatioPress(r) =>
         LET canvasWidth == R(screen.width)
             canvasHeight == R(screen.height - 200)
         IN  /\ CentredInside(SettledCropRect', RDiv(canvasWidth, R(2)),
                              RAdd(R(100), RDiv(canvasHeight, R(2))),
                              canvasWidth, R(100), RAdd(R(100), canvasHeight))
             /\ r = <<1, 1>> =>
                  SettledCropRect'["cropWidth"] = SettledCropRect'["cropHeight"]
             /\ (r = <<1, 1>> /\ sv["cropWidth"] = R(320) /\ screen.width = 360
                 /\ screen.height = 800) =>
                  SettledCropRect' =
                    [cropX |-> R(20), cropY |-> R(240), cropWidth |-> R(320),
                     cropHeight |-> R(320)]]_vars

\* the 1/1 button was pressed with a 320 px wide rectangle on a 360x600
\* canvas and the rectangle has come to rest
C16_Witness ==
  /\ lastOp = "aspectRatio"
  /\ screen = [width |-> 360, height |-> 800]
  /\ \A n \in Crop : anim[n] = NoAnim
  /\ CropRect = [cropX |-> R(20), cropY |-> R(240), cropWidth |-> R(320),
                 cropHeight |-> R(320)]

\* an export is waiting for the manipulation primitive / for the media library
Manipulating == \E i \in DOMAIN exports : exports[i].stage \in {"filtering", "manipulating"}
Persisting == \E i \in DOMAIN exports : exports[i].stage = "persisting"

\* C17: within one save the manipulation primitive is invoked first; the
\* persistence collaborator is invoked only when the manipulation primitive
\* has returned, and with the image it returned; the asset is prepended and
\* completion is signalled only when persistence has returned; the two
\* external calls are never in flight together.
C17_ExportOrdering ==
  [][/\ ~(Manipulating /\ Persisting)
     /\ out'.manipulateCalls > out.manipulateCalls =>
          /\ out'.persistCalls = out.persistCalls
          /\ out'.assets = out.assets
          /\ ~Persisting'
     /\ out'.persistCalls # out.persistCalls =>
          /\ out'.persistCalls = out.persistCalls + 1
          /\ \E i \in DOMAIN exports :
               /\ exports[i].stage = "manipulating"
               /\ exports'[i].stage = "persisting"
               /\ exports[i].call = out.manipulateCalls
               /\ out'.persisted = <<exports[i].call>>
          /\ ~Manipulating'
     /\ (\/ out'.assets # out.assets
         \/ alert' = "success" /\ alert # "success"
         \/ lastOp' = "saved" /\ UNCHANGED nEvents /\ exports' # exports) =>
          /\ Persisting
          /\ Len(exports') = Len(exports) - 1
          /\ out'.persistCalls = out.persistCalls
          /\ out'.manipulateCalls = out.manipulateCalls]_vars

\* a save has gone through both calls and its asset is in the gallery list
C17_Witness ==
  /\ lastOp = "saved"
  /\ variant # "filter"
  /\ out.manipulateCalls = 1
  /\ out.persistCalls = 1
  /\ out.persisted = <<1>>
  /\ out.assets = 1

\* C18: the Reset control resets all transformations to their initial state:
\* after reset the active transform comes to rest at scale 1, translateX 0,
\* translateY 0 and rotation 0, whatever edits and commits came before.
C18_ResetToInitial ==
  lastOp = "reset" => \A n \in Active : Settled(n) = Identity[n]

RightAngles == {R(0), R(90), R(180), R(270)}

\* C19: whenever save builds the request the committed rotation is one of
\* 0, 90, 180, 270, and so is the rotation the request carries, for any
\* sequence of rotate presses, resets, cancel-crop and done-crop, also ones
\* made while a rotation or reset is still animating.
C19_RotationRightAngle ==
  [][NewRequest =>
       /\ savedTransform.rotation \in RightAngles
       /\ \A k \in DOMAIN out'.request :
            out'.request[k].op = "rotate" =>
              out'.request[k].rotate \in RightAngles]_vars

\* C20: a rotate press sets the active rotation to (previous active rotation
\* + 90) modulo 360 and commits it at once: right after the press the
\* rotation save() would export equals the new active rotation, without a
\* done-crop.
C20_RotateCommitsAtOnce ==
  [][IsEvent({"rotate"}) =>
       /\ Settled("rotation")' = rotate90(sv["rotation"])
       /\ savedTransform'.rotation = Settled("rotation")']_vars

\* C21: for every ratio r and starting crop width an aspect-ratio press
\* yields a target with width / height = r, width <= canvas width and height
\* <= canvas height; when the height computed from the current width exceeds
\* the canvas height the width is derived from the canvas height, and when
\* the width (then) exceeds the canvas width the height is derived from the
\* canvas width.
C21_AspectRatioFallback ==
  [][\A r \in AspectRatios :
       handleAspectRatioPress(r) =>
         LET canvasWidth == R(screen.width)
             canvasHeight == R(screen.height - 200)
             w == SettledCropRect'["cropWidth"]
             h == SettledCropRect'["cropHeight"]
             tooHigh == RLt(canvasHeight, RDiv(sv["cropWidth"], r))
             fromHeight == RMul(canvasHeight, r)
             tooWide == RLt(canvasWidth,
                            IF tooHigh THEN fromHeight ELSE sv["cropWidth"])
         IN  /\ w = RMul(h, r)
             /\ h # R(0) => RDiv(w, h) = r
             /\ RLe(w, canvasWidth)
             /\ RLe(h, canvasHeight)
             /\ tooHigh /\ ~tooWide => h = canvasHeight /\ w = fromHeight
             /\ tooWide => w = canvasWidth /\ h = RDiv(canvasWidth, r)
             /\ ~tooHigh /\ ~tooWide => w = sv["cropWidth"]]_vars

\* 9/16 pressed with the 220 px wide rectangle of a 320x568 window: the
\* height would be 391 > 368, and the target is 207 x 368
C21_Witness ==
  /\ lastOp = "aspectRatio"
  /\ screen = [width |-> 320, height |-> 568]
  /\ SettledCropRect["cropHeight"] = R(368)
  /\ SettledCropRect["cropWidth"] = R(207)

\* 5/4 pressed with a 520 px wide rectangle on the same window: the height
\* would be 416 > 368, the width derived from 368 is 460 > 320, and the
\* target is 320 x 256 after both fallbacks
C21_WitnessBoth ==
  /\ lastOp = "aspectRatio"
  /\ screen = [width |-> 320, height |-> 568]
  /\ sv["cropWidth"] = R(520)
  /\ anim["cropWidth"] = <<R(320), MaxFrames>>
  /\ SettledCropRect["cropHeight"] = R(256)

\* the rectangles of part_004 a viewport may stand for: the window, the canvas
\* of the aspect-ratio snap, the image space of handleSave
Viewports ==
  {[width |-> screen.width, height |-> screen.height],
   [width |-> screen.width, height |-> screen.height - 200],
   [width |-> screen.width, height |-> screen.height - 300]}

\* C22: the contain-fit values save uses are scale = min of the two axis
\* ratios and offsets = half the leftover space, all three against one and
\* the same viewport rectangle, so that the displayed image is no wider and
\* no higher than that viewport, both offsets are >= 0 and the margins on
\* opposite sides are equal.
C22_DisplayMapping ==
  [][NewRequest /\ variant = "skia" =>
       LET fit == containFit(knownSize)
           displayedWidth == RMul(R(knownSize.width), fit.scale)
           displayedHeight == RMul(R(knownSize.height), fit.scale)
       IN  \E viewport \in Viewports :
             /\ fit = displayMapping(knownSize, viewport)
             /\ RLe(displayedWidth, R(viewport.width))
             /\ RLe(displayedHeight, R(viewport.height))
             /\ RLe(R(0), fit.offsetX) /\ RLe(R(0), fit.offsetY)
             /\ RAdd(fit.offsetX, RAdd(displayedWidth, fit.offsetX)) =
                  R(viewport.width)
             /\ RAdd(fit.offsetY, RAdd(displayedHeight, fit.offsetY)) =
                  R(viewport.height)]_vars

\* C23: invalid geometry never becomes a failure: a save pressed before the
\* image size is known starts no call and raises no alert, and no request
\* carries a crop rectangle with width <= 0 or height <= 0.
C23_InvalidGeometryHandled ==
  [][/\ IsEvent({"save"}) /\ variant # "filter" /\ originalImageSize = Null =>
          out' = out /\ alert' = alert /\ exports' = exports
     /\ NewRequest =>
          LET c == cropOf(out'.request)
          IN  RLt(R(0), c.width) /\ RLt(R(0), c.height)]_vars

\* C24: an export, once started, runs to completion or failure: given that
\* each external call resolves or rejects, isProcessing = true is always
\* followed by isProcessing = false, whichever call rejects or none, and no
\* press in between takes the export away or clears isProcessing.
C24_ExportRunsToEnd ==
  /\ isProcessing ~> ~isProcessing
  /\ [][nEvents' > nEvents /\ isProcessing =>
          /\ isProcessing'
          /\ Len(exports') >= Len(exports)
          /\ \A i \in DOMAIN exports : exports'[i] = exports[i]]_vars

\* Cancel was pressed during a save and the save still ran to its end
C24_Witness ==
  /\ out.cancels = 1
  /\ out.persistCalls = 1
  /\ exports = <<>>
  /\ ~isProcessing
  /\ lastOp \in {"saved", "saveFailed"}

\* C25: the committed transform is written only by done-crop: enter-crop,
\* pan, pinch, reset, cancel-crop, aspect-ratio press, resize, save (success
\* or failure), view-cancel and every other step leave committedScale,
\* committedTranslateX, committedTranslateY and committedRotation unchanged.
C25_OnlyDoneCommits ==
  [][IsEvent({"doneCrop"}) \/ CommittedTransform' = CommittedTransform]_vars

\* a committed rotation has gone through a save untouched
C25_Witness ==
  /\ lastOp \in {"saved", "saveFailed"}
  /\ variant = "gesture"
  /\ sv["committedRotation"] = R(90)
  /\ CommittedTransform = lastDone

\* C26: cancel-crop rolls the crop session back: whatever pan, pinch, rotate,
\* resize and aspect-ratio actions came between enter-crop and cancel-crop,
\* the parameters a save reads after the cancel (the committed transform and
\* the crop rectangle, now and once it has come to rest) are those it read
\* just before enter-crop.
C26_CancelCropRollsBack ==
  [][IsEvent({"cancelCrop"}) =>
       /\ savedTransform' = beforeCrop.transform
       /\ CropRect' = beforeCrop.crop
       /\ SettledCropRect' = beforeCrop.crop]_vars

\* C26 for the transform alone, which the cancel does roll back
C26_TransformRolledBack ==
  [][IsEvent({"cancelCrop"}) => savedTransform' = beforeCrop.transform]_vars

\* C27: completion is signalled at most once: router.back is called at most
\* once in a session, however the Cancel presses fall around a save that
\* later succeeds.
C27_BackAtMostOnce == out.back <= 1

\* C28: gallery pagination is single-flight and duplicate-free: at most one
\* loadMoreMedia request is in flight, a request is issued only while
\* hasNextPage holds, and no page is in the media list twice, however the
\* end-reached events, the completions and a reload by loadMedia interleave.
LoadMoreInFlight ==
  {i \in DOMAIN home.requests : home.requests[i].fn = "loadMoreMedia"}

C28_Pagination ==
  /\ [](/\ Cardinality(LoadMoreInFlight) <= 1
        /\ \A i, j \in DOMAIN home.media :
             home.media[i] = home.media[j] => i = j)
  /\ [][home'.lastOp = "loadMoreMedia" /\ home'.events # home.events =>
          home.hasNextPage]_vars

\* the end of the list is reached again while the request for the second page
\* runs, after a first load that failed and was tried again
C28_Witness ==
  /\ home.lastOp = "loadMoreSkipped"
  /\ home.isLoadingMore
  /\ home.media = <<1>>
  /\ home.events = 3

\* C30: each aspect-ratio preset applies the ratio its label names: pressing
\* the button labelled W:H yields a target crop rectangle with
\* width / height = W / H.
C30_PresetMatchesLabel ==
  [][\A b \in AspectRatioButtons :
       handleAspectRatioPress(b.ratio) =>
         LET w == SettledCropRect'["cropWidth"]
             h == SettledCropRect'["cropHeight"]
         IN  /\ RMul(w, R(b.label[2])) = RMul(h, R(b.label[1]))
             /\ h # R(0) => RDiv(w, h) = b.label]_vars

\* C29: a pinch that ends with the active scale below 1 is driven back to
\* exactly 1, so whenever no pinch is in progress and no animation of the
\* scale is pending the active scale lies in [1, 3].
C29_SnapBack ==
  variant \in {"gesture", "filter"} /\ ~gesture.pinching /\ anim["scale"] = NoAnim =>
    RLe(R(1), sv["scale"]) /\ RLe(sv["scale"], R(3))

====
